---- MODULE Spec2Model ----
(***************************************************************************)
(* Model of the AnalyticsMapView component (risk markers, single           *)
(* selection, threshold filter, claims loader).  One action per event      *)
(* handler; an action includes the React re-render that follows the        *)
(* handler and the synchronous part of every effect whose dependencies     *)
(* changed.  Asynchronous continuations (claims fetch resolution, the      *)
(* 50 ms selection-restore timer) are actions of their own.                *)
(***************************************************************************)
EXTENDS Integers, Sequences, FiniteSets, Bags, TLC

(***************************************************************************)
(* Bounds of the model                                                     *)
(***************************************************************************)
\* claims fetches that may be unresolved at the same time
MaxInflight == 2
\* selection-restore timers that may be pending at the same time
MaxTimers == 1
\* loadImages calls that may be suspended at the same time
MaxRuns == 2
\* identities of marker objects told apart
MaxObjects == 4
\* searchLocations calls that may be suspended at the same time
MaxSearches == 2
\* milliseconds of one step of the clock
TickMs == 100

(***************************************************************************)
(* JavaScript values                                                       *)
(***************************************************************************)
\* a value of type number | string | null | undefined, tagged by its type
Num(n) == [t |-> "number", n |-> n, s |-> ""]
Str(s) == [t |-> "string", n |-> 0, s |-> s]
JSNull == [t |-> "null", n |-> 0, s |-> ""]
JSUndef == [t |-> "undefined", n |-> 0, s |-> ""]

\* an optional value (T | null) of the component state: <<>> is null
None == <<>>
Some(x) == <<x>>

\* decimal digits of the small naturals used as building identifiers
DigitString == [n \in 0..9 |-> CASE n = 0 -> "0" [] n = 1 -> "1" [] n = 2 -> "2"
                                 [] n = 3 -> "3" [] n = 4 -> "4" [] n = 5 -> "5"
                                 [] n = 6 -> "6" [] n = 7 -> "7" [] n = 8 -> "8"
                                 [] OTHER -> "9"]

\* String(v)
JSString(v) ==
    CASE v.t = "number" -> DigitString[v.n]
      [] v.t = "string" -> v.s
      [] v.t = "null" -> "null"
      [] OTHER -> "undefined"

\* !v
Falsy(v) ==
    CASE v.t = "number" -> v.n = 0
      [] v.t = "string" -> v.s = ""
      [] OTHER -> TRUE

\* a JavaScript number that may be NaN
NaN == [nan |-> TRUE, v |-> 0]
Finite(n) == [nan |-> FALSE, v |-> n]

\* Number(v) for a risk score: Number(null) is 0, Number(undefined) is NaN
ToNumberNullIsNaN(v) ==
    CASE v.t = "number" -> Finite(v.n)
      [] OTHER -> NaN

ToNumber(v) ==
    CASE v.t = "number" -> Finite(v.n)
      [] v.t = "null" -> Finite(0)
      [] OTHER -> NaN

\* a < b and a >= b on JavaScript numbers: false when either side is NaN
JSLess(a, b) == ~a.nan /\ ~b.nan /\ a.v < b.v
JSGreaterEq(a, b) == ~a.nan /\ ~b.nan /\ a.v >= b.v

\* Math.min and Math.max: NaN when either argument is NaN
MathMin(a, b) == IF a.nan \/ b.nan THEN NaN ELSE IF a.v < b.v THEN a ELSE b
MathMax(a, b) == IF a.nan \/ b.nan THEN NaN ELSE IF a.v > b.v THEN a ELSE b

(***************************************************************************)
(* Risk domains and colors                                                 *)
(***************************************************************************)
WaterMin == 1
WaterMax == 6
WindMin == 25
WindMax == 38

\* the delay of the debounce timer of the location search, in milliseconds
DebounceMs == 300

MinVal(mode) == IF mode = "water" THEN WaterMin ELSE WindMin
MaxVal(mode) == IF mode = "water" THEN WaterMax ELSE WindMax

\* the fill of a filtered marker, hsl(0, 0%, 60%); a hue is the exact
\* fraction <<numerator, denominator>> of the degrees
Gray == [hue |-> <<0, 1>>, sat |-> 0, light |-> 60]

\* hsl(hue, 80%, 50%) with hue = 120 * (1 - t),
\* t = NaN ? 0 : (normalizedRisk - minVal) / (maxVal - minVal)
HueColorUnclamped(mode, riskValue) ==
    LET minVal == MinVal(mode)
        maxVal == MaxVal(mode)
        normalizedRisk == ToNumber(riskValue)
        tNum == IF normalizedRisk.nan THEN 0 ELSE normalizedRisk.v - minVal
        tDen == maxVal - minVal
    IN  [hue |-> <<120 * (tDen - tNum), tDen>>, sat |-> 80, light |-> 50]

HueColor(mode, riskValue) ==
    LET minVal == MinVal(mode)
        maxVal == MaxVal(mode)
        normalizedRisk == MathMax(Finite(minVal), MathMin(Finite(maxVal), ToNumber(riskValue)))
        tNum == IF normalizedRisk.nan THEN 0 ELSE normalizedRisk.v - minVal
        tDen == maxVal - minVal
    IN  [hue |-> <<120 * (tDen - tNum), tDen>>, sat |-> 80, light |-> 50]

\* coord.riskData?.HOCHWASSER_FLIESSGEWAESSER or coord.riskData?.STURM
RiskValue(mode, coord) ==
    IF mode = "water" THEN coord.riskData.HOCHWASSER_FLIESSGEWAESSER ELSE coord.riskData.STURM

\* isFiltered = Number(riskValue) < threshold
IsFilteredInclusive(riskValue, threshold) ==
    JSLess(ToNumber(riskValue), Finite(threshold + 1))

IsFiltered(riskValue, threshold) ==
    JSLess(ToNumber(riskValue), Finite(threshold))

(***************************************************************************)
(* Inputs: building records, record lists handed to addMarkers, slider     *)
(* positions, and the rows of the claims table                             *)
(***************************************************************************)
\* the [lng, lat] of the addresses used, in whole degrees
LngLat(address) ==
    CASE address = "A" -> <<8, 47>>
      [] address = "B" -> <<9, 46>>
      [] address = "C" -> <<7, 46>>
      [] OTHER         -> <<6, 46>>

\* a MarkerInput; a field the record lacks is undefined
Building(address, egid, water, wind) ==
    [address |-> address,
     lng |-> LngLat(address)[1],
     lat |-> LngLat(address)[2],
     riskData |-> [GWR_EGID |-> egid, HOCHWASSER_FLIESSGEWAESSER |-> water, STURM |-> wind]]

BuildingA == Building("A", Num(1), Num(6), Num(25))
BuildingB == Building("B", Num(2), Num(1), Num(38))
\* C has null scores and no identifier; D has no riskData at all
BuildingC == Building("C", JSUndef, JSNull, JSNull)
BuildingD == Building("D", JSUndef, JSUndef, JSUndef)

\* the record lists handed to addMarkers
LoadInputs ==
    { <<BuildingA, BuildingB>>,
      <<BuildingB, BuildingC>>,
      <<BuildingD>>,
      <<>> }

\* the values Math.random() * 40 - 20 takes in the runs explored; the bearing
\* is not read back by any handler except to restore it
BearingInputs == {0}

\* the slider positions tried, within min..max of each slider
WaterSliderInputs == {WaterMin, 3}
WindSliderInputs == {WindMin, 30}

\* rows of the claims table, newest first; image_paths of a row without
\* images is empty
ClaimsTable ==
    << [id |-> "c1", gwr_egid |-> "1", image_paths |-> <<"p1", "p2", "p3">>],
       [id |-> "c2", gwr_egid |-> "2", image_paths |-> <<"p4">>],
       [id |-> "c3", gwr_egid |-> "1", image_paths |-> <<>>] >>

\* .from('claims').select('*').eq('gwr_egid', key).order('created_at', desc)
ClaimsQuery(key) ==
    LET Match(row) == row.gwr_egid = key
    IN  SelectSeq(ClaimsTable, Match)

\* error.message values of a failed lookup
BackendErrors == {"backend error"}

(***************************************************************************)
(* State                                                                   *)
(***************************************************************************)
VARIABLES
    markersData,        \* useState<MarkerInput[]>: the loaded records
    dom,                \* the .building-marker elements in the map container, in document order
    selectedBuilding,   \* useState<{address, riskData, markerId} | null>
    riskMode,           \* useState<'water' | 'wind'>
    waterThreshold,     \* useState([1]): waterThreshold[0]
    windThreshold,      \* useState([25]): windThreshold[0]
    claims,             \* useState<Tables<'claims'>[] | null>
    claimsLoading,      \* useState(false)
    claimsError,        \* useState<string | null>
    showClaimsPanel,    \* useState(true)
    inflight,           \* bag of the claims lookups awaiting their response
    timers,             \* pending setTimeout(..., 50) callbacks, oldest first
    lastCamera,         \* the camera call made by the handler that ran last
    camera,             \* the camera pose, named by the request that set it
    selectedClaim,      \* useState<Tables<'claims'> | null>
    claimDialogOpen,    \* useState(false)
    imageUrls,          \* useState<string[]>([])
    imageLoading,       \* useState(false)
    signRuns,           \* the loadImages calls suspended at an await, oldest first
    settled,            \* how the loadImages() call that finished last settled; no handler reads it
    attached,           \* the mapboxgl.Marker objects on the map: attached[k] owns the element dom[k]
    markers,            \* useState<mapboxgl.Marker[]>([]): the value of the last setMarkers
    handleMarkers,      \* the markers the imperative handle of the last render closed over
    searchValue,        \* Analytics page: useState(''), the text of the search input
    isLoading,          \* Analytics page: useState(false)
    locationResults,    \* Analytics page: useState<LocationResult[]>([])
    showResults,        \* Analytics page: useState(false)
    searchTimeoutRef,   \* Analytics page: useRef<number | null>(null), 0 for null
    windowTimers,       \* the pending window.setTimeout callbacks of debouncedSearch
    searches,           \* the searchLocations calls suspended at their fetch
    sinceChange,        \* milliseconds since the last change of the search input, capped at DebounceMs
    recomputeSeen,      \* observer: a recompute since the last load, with its filter and visuals
    loadSeen            \* observer: the last addMarkers under the current filter, with its visuals

vars == <<markersData, dom, selectedBuilding, riskMode, waterThreshold, windThreshold,
          claims, claimsLoading, claimsError, showClaimsPanel, inflight, timers,
          lastCamera, camera, selectedClaim, claimDialogOpen, imageUrls, imageLoading,
          signRuns, settled, attached, markers, handleMarkers, searchValue, isLoading,
          locationResults, showResults, searchTimeoutRef, windowTimers, searches,
          sinceChange, recomputeSeen, loadSeen>>

filterVars == <<riskMode, waterThreshold, windThreshold>>
claimsVars == <<claims, claimsLoading, claimsError, showClaimsPanel, inflight>>
dialogVars == <<selectedClaim, claimDialogOpen, imageUrls, imageLoading, signRuns, settled>>
markerVars == <<attached, markers, handleMarkers>>
pageVars == <<searchValue, isLoading, locationResults, showResults, searchTimeoutRef,
              windowTimers, searches, sinceChange>>
\* the observers record what was drawn; no handler reads them
observers == <<recomputeSeen, loadSeen>>

\* the pose new mapboxgl.Map({zoom: 2, center: [0, 20], pitch: 45, bearing: 0})
\* starts in; a pose is the tuple of points, zoom, pitch and bearing of the
\* request that set the camera
InitialPose ==
    [method |-> "Map", points |-> << <<0, 20>> >>, zoom |-> 2, pitch |-> 45, bearing |-> Some(0)]

\* the state after the component has mounted with a map: every effect has run
\* once on empty state (checkClaim returns at "if (!egid) return")
Init ==
    /\ markersData = <<>>
    /\ dom = <<>>
    /\ selectedBuilding = None
    /\ riskMode = "water"
    /\ waterThreshold = 1
    /\ windThreshold = 25
    /\ claims = None
    /\ claimsLoading = FALSE
    /\ claimsError = None
    /\ showClaimsPanel = TRUE
    /\ inflight = EmptyBag
    /\ timers = <<>>
    /\ lastCamera = "none"
    /\ camera = InitialPose
    /\ selectedClaim = None
    /\ claimDialogOpen = FALSE
    /\ imageUrls = <<>>
    /\ imageLoading = FALSE
    /\ signRuns = <<>>
    /\ settled = None
    /\ attached = <<>>
    /\ markers = <<>>
    /\ handleMarkers = <<>>
    /\ searchValue = <<>>
    /\ isLoading = FALSE
    /\ locationResults = <<>>
    /\ showResults = FALSE
    /\ searchTimeoutRef = 0
    /\ windowTimers = {}
    /\ searches = <<>>
    /\ sinceChange = DebounceMs
    /\ recomputeSeen = None
    /\ loadSeen = None

(***************************************************************************)
(* Marker elements                                                         *)
(***************************************************************************)
\* the element createMarkers builds for one record: colored by the hue of the
\* active mode's score, updateMarkerSize(false)
CreatedMarker(mode, coord) ==
    [id |-> coord.address, coord |-> coord,
     fill |-> HueColor(mode, RiskValue(mode, coord)),
     isFiltered |-> FALSE, selected |-> FALSE]

\* the element the recompute effect builds for one record
RecomputedMarkerKeepsGray(mode, threshold, coord) ==
    LET riskValue == RiskValue(mode, coord)
        filtered == \/ IsFiltered(riskValue, threshold)
                    \/ \E k \in DOMAIN dom : dom[k].id = coord.address /\ dom[k].isFiltered
    IN  [id |-> coord.address,
         coord |-> coord,
         fill |-> IF filtered THEN Gray ELSE HueColor(mode, riskValue),
         isFiltered |-> filtered,
         selected |-> FALSE]

RecomputedMarker(mode, threshold, coord) ==
    LET riskValue == RiskValue(mode, coord)
        filtered == IsFiltered(riskValue, threshold)
    IN  [id |-> coord.address, coord |-> coord,
         fill |-> IF filtered THEN Gray ELSE HueColor(mode, riskValue),
         isFiltered |-> filtered, selected |-> FALSE]

\* querySelectorAll('.building-marker').forEach(n => data-selected = 'false')
ShrinkAll(elements) ==
    [i \in DOMAIN elements |-> [elements[i] EXCEPT !.selected = FALSE]]

\* querySelector(`[data-id="${markerId}"]`): the first element with that id, 0 if none
QuerySelectorFirst(elements, markerId) ==
    IF elements = <<>> THEN 0 ELSE 1

QuerySelector(elements, markerId) ==
    IF \E i \in DOMAIN elements : elements[i].id = markerId
    THEN CHOOSE i \in DOMAIN elements :
            /\ elements[i].id = markerId
            /\ \A j \in DOMAIN elements : elements[j].id = markerId => i <= j
    ELSE 0

ActiveThreshold(mode, water, wind) == IF mode = "water" THEN water ELSE wind

(***************************************************************************)
(* Effects that depend on selectedBuilding                                 *)
(***************************************************************************)
\* the object a marker click stores with setSelectedBuilding
Selection(coord) ==
    [address |-> coord.address, riskData |-> coord.riskData, markerId |-> coord.address]

\* selectedBuilding?.riskData?.GWR_EGID
EgidOf(sel) == IF sel = None THEN JSUndef ELSE sel[1].riskData.GWR_EGID

\* checkClaim up to its await, run by the effect for the new value sel of
\* selectedBuilding: clears error and claims, re-opens the panel, and, when the
\* building has an identifier, raises the loading flag and issues the lookup
CheckClaimKeyedByAddress(sel) ==
    /\ claimsError' = None
    /\ claims' = None
    /\ showClaimsPanel' = TRUE
    /\ IF Falsy(EgidOf(sel))
       THEN UNCHANGED <<claimsLoading, inflight>>
       ELSE /\ BagCardinality(inflight) < MaxInflight
            /\ claimsLoading' = TRUE
            /\ inflight' = inflight (+) SetToBag({[key |-> sel[1].address,
                                                   issuedFor |-> sel[1].markerId]})

CheckClaim(sel) ==
    /\ claimsError' = None
    /\ claims' = None
    /\ showClaimsPanel' = TRUE
    /\ IF Falsy(EgidOf(sel))
       THEN UNCHANGED <<claimsLoading, inflight>>
       ELSE /\ BagCardinality(inflight) < MaxInflight
            /\ claimsLoading' = TRUE
            /\ inflight' = inflight (+) SetToBag({[key |-> JSString(EgidOf(sel)),
                                                   issuedFor |-> sel[1].markerId]})

\* the Claims Panel render gate
ClaimsPanelShown ==
    /\ selectedBuilding # None
    /\ showClaimsPanel
    /\ claims # None
    /\ Len(claims[1]) > 0

\* the error line of the Claims Panel, rendered inside the panel
ClaimsErrorShown ==
    /\ ClaimsPanelShown
    /\ ~claimsLoading
    /\ claimsError # None

(***************************************************************************)
(* Marker click                                                            *)
(***************************************************************************)
\* the elements after a click on element i that was not selected: every
\* .building-marker is shrunk, then updateMarkerSize(true) on the clicked one
ClickedElementsNoShrink(elements, i) ==
    [elements EXCEPT ![i].selected = TRUE]

ClickedElements(elements, i) ==
    [ShrinkAll(elements) EXCEPT ![i].selected = TRUE]

\* click listener of marker element i (the listeners installed by createMarkers
\* and by the recompute effect are the same code), then the effects on
\* [selectedBuilding]
MarkerClick(i) ==
    /\ i \in DOMAIN dom
    /\ IF dom[i].selected
       THEN /\ dom' = ShrinkAll(dom)
            /\ selectedBuilding' = None
            /\ IF selectedBuilding = None
               THEN UNCHANGED claimsVars
               ELSE CheckClaim(None)
       ELSE /\ dom' = ClickedElements(dom, i)
            /\ selectedBuilding' = Some(Selection(dom[i].coord))
            /\ CheckClaim(Some(Selection(dom[i].coord)))
    /\ lastCamera' = "none"
    /\ UNCHANGED camera
    /\ UNCHANGED <<markersData, filterVars, timers>>
    /\ UNCHANGED dialogVars
    /\ UNCHANGED <<markerVars, pageVars>>

\* the close button of the Risk Information Panel: setSelectedBuilding(null)
CloseRiskPanel ==
    /\ selectedBuilding # None
    /\ selectedBuilding' = None
    /\ dom' = ShrinkAll(dom)
    /\ CheckClaim(None)
    /\ lastCamera' = "none"
    /\ UNCHANGED camera
    /\ UNCHANGED <<markersData, filterVars, timers>>
    /\ UNCHANGED dialogVars
    /\ UNCHANGED <<markerVars, pageVars>>

\* the close button of the Claims Panel: setShowClaimsPanel(false)
CloseClaimsPanel ==
    /\ ClaimsPanelShown
    /\ showClaimsPanel' = FALSE
    /\ lastCamera' = "none"
    /\ UNCHANGED camera
    /\ UNCHANGED <<markersData, dom, selectedBuilding, filterVars, claims, claimsLoading,
                   claimsError, inflight, timers>>
    /\ UNCHANGED dialogVars
    /\ UNCHANGED <<markerVars, pageVars>>

(***************************************************************************)
(* addMarkers and clearMarkers                                             *)
(***************************************************************************)
\* the camera call of createMarkers for a list of n records
LoadCameraAlwaysFits(n) ==
    IF n = 0 THEN "none" ELSE "fitBounds"

LoadCamera(n) ==
    IF n = 0 THEN "none" ELSE IF n = 1 THEN "flyTo" ELSE "fitBounds"

\* flyTo({center: [lng, lat], zoom: 14, pitch: 60, bearing: random})
FlyToPose(coord, bearing) ==
    [method |-> "flyTo", points |-> << <<coord.lng, coord.lat>> >>, zoom |-> 14, pitch |-> 60,
     bearing |-> Some(bearing)]

\* fitBounds(bounds extended by every record, {maxZoom: 18, pitch: 60}); zoom
\* is the cap, no bearing is passed
FitBoundsPose(coordinates) ==
    [method |-> "fitBounds",
     points |-> [i \in 1..Len(coordinates) |-> <<coordinates[i].lng, coordinates[i].lat>>],
     zoom |-> 18, pitch |-> 60, bearing |-> None]

\* the poses createMarkers may leave the camera in, one per random bearing
\* of the flyTo
LoadPoses(pose, coordinates) ==
    IF Len(coordinates) = 0 THEN {pose}
    ELSE IF Len(coordinates) = 1
         THEN {FlyToPose(coordinates[1], bearing) : bearing \in BearingInputs}
    ELSE {FitBoundsPose(coordinates)}

\* the elements createMarkers adds, one per record, in list order
CreateMarkers(mode, coordinates) ==
    [i \in 1..Len(coordinates) |-> CreatedMarker(mode, coordinates[i])]

\* the members of a list
Range(list) == {list[i] : i \in DOMAIN list}

\* identities for n new marker objects: the n smallest that no object still
\* referenced carries
FreshObjects(n, referenced) ==
    LET free == (1..MaxObjects) \ referenced
    IN  [i \in 1..n |-> CHOOSE o \in free : Cardinality({x \in free : x < o}) = i - 1]

\* held.forEach(marker => marker.remove()): what is left of a list that runs
\* parallel to the attached markers once the held ones are removed
AfterRemove(list, held) ==
    LET left == {k \in DOMAIN attached : attached[k] \notin Range(held)}
    IN  [j \in 1..Cardinality(left) |->
            list[CHOOSE k \in left : Cardinality({x \in left : x < k}) = j - 1]]

\* the body of addMarkers(coordinates), run with the list held that its
\* closure captured as markers: stores the records, removes the held markers
\* and calls createMarkers, which attaches one new marker per record and
\* calls setMarkers(newMarkers)
AddMarkersBody(coordinates, held, referenced) ==
    LET kept == AfterRemove(attached, held)
        newMarkers == FreshObjects(Len(coordinates), Range(kept) \cup referenced)
    IN  /\ Cardinality((1..MaxObjects) \ (Range(kept) \cup referenced)) >= Len(coordinates)
        /\ markersData' = coordinates
        /\ UNCHANGED <<selectedBuilding, filterVars, claimsVars, timers>>
        /\ lastCamera' = LoadCamera(Len(coordinates))
        /\ camera' \in LoadPoses(camera, coordinates)
        /\ dom' = AfterRemove(dom, held) \o CreateMarkers(riskMode, coordinates)
        /\ attached' = kept \o newMarkers
        /\ markers' = newMarkers
        /\ UNCHANGED dialogVars
        /\ UNCHANGED pageVars

\* addMarkers(coordinates) followed by the render it schedules: the handle is
\* re-created over the new markers and the removed ones are referenced no
\* more; no effect has a changed dependency
AddMarkers(coordinates) ==
    /\ AddMarkersBody(coordinates, handleMarkers, {})
    /\ handleMarkers' = markers'

\* addMarkers(coordinates) called through the handle of the last render
\* before the component has rendered again
AddMarkersBeforeRender(coordinates) ==
    /\ AddMarkersBody(coordinates, handleMarkers, Range(handleMarkers) \cup Range(markers))
    /\ UNCHANGED handleMarkers

\* the render scheduled by setMarkers: useImperativeHandle re-creates the
\* handle, deps [markers, markersData, riskMode]
Render ==
    /\ handleMarkers # markers
    /\ handleMarkers' = markers
    /\ lastCamera' = "none"
    /\ UNCHANGED camera
    /\ UNCHANGED <<markersData, dom, selectedBuilding, filterVars, claimsVars, timers,
                   attached, markers>>
    /\ UNCHANGED dialogVars
    /\ UNCHANGED pageVars

\* clearMarkers(): removes the markers, empties the records and sets the
\* selection to null; the effects on [selectedBuilding] run when it was set
ClearMarkersBody(held) ==
    /\ markersData' = <<>>
    /\ dom' = AfterRemove(dom, held)
    /\ attached' = AfterRemove(attached, held)
    /\ markers' = <<>>
    /\ selectedBuilding' = None
    /\ IF selectedBuilding = None
       THEN UNCHANGED claimsVars
       ELSE CheckClaim(None)
    /\ lastCamera' = "none"
    /\ UNCHANGED camera
    /\ UNCHANGED <<filterVars, timers>>
    /\ UNCHANGED dialogVars
    /\ UNCHANGED pageVars

ClearMarkersLeavesElements ==
    /\ markersData' = <<>>
    /\ dom' = ShrinkAll(dom)
    /\ UNCHANGED attached
    /\ markers' = <<>>
    /\ handleMarkers' = <<>>
    /\ selectedBuilding' = None
    /\ IF selectedBuilding = None
       THEN UNCHANGED claimsVars
       ELSE CheckClaim(None)
    /\ lastCamera' = "none"
    /\ UNCHANGED camera
    /\ UNCHANGED <<filterVars, timers>>
    /\ UNCHANGED dialogVars
    /\ UNCHANGED pageVars

\* clearMarkers() followed by the render it schedules
ClearMarkers ==
    /\ ClearMarkersBody(handleMarkers)
    /\ handleMarkers' = markers'

\* clearMarkers() called through the handle of the last render before the
\* component has rendered again
ClearMarkersBeforeRender ==
    /\ ClearMarkersBody(handleMarkers)
    /\ UNCHANGED handleMarkers

(***************************************************************************)
(* Filter controls and the recompute effect                                *)
(***************************************************************************)
\* the elements the effect on [riskMode, waterThreshold, windThreshold] builds
RecomputeMarkersBothModes(mode, water, wind, coordinates) ==
    [i \in 1..Len(coordinates) |->
        IF IsFiltered(RiskValue("water", coordinates[i]), water)
           \/ IsFiltered(RiskValue("wind", coordinates[i]), wind)
        THEN [RecomputedMarker(mode, ActiveThreshold(mode, water, wind), coordinates[i])
                 EXCEPT !.fill = Gray, !.isFiltered = TRUE]
        ELSE RecomputedMarker(mode, ActiveThreshold(mode, water, wind), coordinates[i])]

RecomputeMarkers(mode, water, wind, coordinates) ==
    [i \in 1..Len(coordinates) |->
        RecomputedMarker(mode, ActiveThreshold(mode, water, wind), coordinates[i])]

\* jumpTo({center, zoom, pitch, bearing}): the camera is at the given pose
JumpTo(pose) == pose

\* the guard of the effect: if (markersData.length > 0 && map.current)
HasMarkersWithoutGuard(coordinates) == TRUE

HasMarkers(coordinates) == Len(coordinates) > 0

\* the effect, run with the new filter values: nothing when no records are
\* loaded; otherwise the markers are re-created, the camera pose read at the
\* start is restored with jumpTo, and a 50 ms timer is set for the selection
RecomputeViaCreateMarkers(mode, water, wind) ==
    IF Len(markersData) > 0
    THEN /\ dom' = AfterRemove(dom, markers) \o RecomputeMarkers(mode, water, wind, markersData)
         /\ attached' = AfterRemove(attached, markers)
                            \o FreshObjects(Len(markersData), Range(AfterRemove(attached, markers)))
         /\ markers' = FreshObjects(Len(markersData), Range(AfterRemove(attached, markers)))
         /\ handleMarkers' = markers'
         /\ lastCamera' = LoadCamera(Len(markersData))
         /\ camera' \in LoadPoses(camera, markersData)
         /\ IF selectedBuilding = None
            THEN UNCHANGED timers
            ELSE /\ Len(timers) < MaxTimers
                 /\ timers' = Append(timers, selectedBuilding[1].markerId)
    ELSE /\ lastCamera' = "none"
         /\ UNCHANGED <<dom, timers, camera, markerVars>>

Recompute(mode, water, wind) ==
    IF HasMarkers(markersData)
    THEN /\ dom' = AfterRemove(dom, markers) \o RecomputeMarkers(mode, water, wind, markersData)
         /\ attached' = AfterRemove(attached, markers)
                            \o FreshObjects(Len(markersData), Range(AfterRemove(attached, markers)))
         /\ markers' = FreshObjects(Len(markersData), Range(AfterRemove(attached, markers)))
         /\ handleMarkers' = markers'
         /\ lastCamera' = "jumpTo"
         /\ LET currentPose == camera IN camera' = JumpTo(currentPose)
         /\ IF selectedBuilding = None
            THEN UNCHANGED timers
            ELSE /\ Len(timers) < MaxTimers
                 /\ timers' = Append(timers, selectedBuilding[1].markerId)
    ELSE /\ lastCamera' = "none"
         /\ UNCHANGED <<dom, timers, camera, markerVars>>

\* the Wasser / Wind buttons: setRiskMode(mode); a click on the active mode
\* leaves the state as it is and runs no effect
SetRiskModeResetsThresholds(mode) ==
    /\ mode # riskMode
    /\ riskMode' = mode
    /\ waterThreshold' = WaterMin
    /\ windThreshold' = WindMin
    /\ Recompute(mode, WaterMin, WindMin)
    /\ UNCHANGED <<markersData, selectedBuilding, claimsVars>>
    /\ UNCHANGED dialogVars
    /\ UNCHANGED pageVars

SetRiskMode(mode) ==
    /\ mode # riskMode
    /\ riskMode' = mode
    /\ Recompute(mode, waterThreshold, windThreshold)
    /\ UNCHANGED <<markersData, selectedBuilding, waterThreshold, windThreshold, claimsVars>>
    /\ UNCHANGED dialogVars
    /\ UNCHANGED pageVars

\* onClick of the Wasser / Wind buttons: setRiskMode(mode); with the mode the
\* state already holds React bails out: no render follows and no effect runs
ClickRiskMode(mode) ==
    IF mode = riskMode
    THEN /\ lastCamera' = "none"
         /\ UNCHANGED <<markersData, dom, selectedBuilding, filterVars, claimsVars, timers,
                        camera, dialogVars, markerVars, pageVars>>
    ELSE SetRiskMode(mode)

\* the water slider (rendered in water mode): onValueChange = setWaterThreshold
SetWaterThresholdStale(v) ==
    /\ riskMode = "water"
    /\ v # waterThreshold
    /\ waterThreshold' = v
    /\ Recompute(riskMode, waterThreshold, windThreshold)
    /\ UNCHANGED <<markersData, selectedBuilding, riskMode, windThreshold, claimsVars>>
    /\ UNCHANGED dialogVars
    /\ UNCHANGED pageVars

SetWaterThreshold(v) ==
    /\ riskMode = "water"
    /\ v # waterThreshold
    /\ waterThreshold' = v
    /\ Recompute(riskMode, v, windThreshold)
    /\ UNCHANGED <<markersData, selectedBuilding, riskMode, windThreshold, claimsVars>>
    /\ UNCHANGED dialogVars
    /\ UNCHANGED pageVars

\* the wind slider (rendered in wind mode): onValueChange = setWindThreshold
SetWindThreshold(v) ==
    /\ riskMode = "wind"
    /\ v # windThreshold
    /\ windThreshold' = v
    /\ Recompute(riskMode, waterThreshold, v)
    /\ UNCHANGED <<markersData, selectedBuilding, riskMode, waterThreshold, claimsVars>>
    /\ UNCHANGED dialogVars
    /\ UNCHANGED pageVars

\* the callback of the oldest pending selection-restore timer
RestoreSelection ==
    /\ timers # <<>>
    /\ LET k == QuerySelector(dom, Head(timers))
       IN  dom' = IF k = 0 THEN dom ELSE [dom EXCEPT ![k].selected = TRUE]
    /\ timers' = Tail(timers)
    /\ lastCamera' = "none"
    /\ UNCHANGED camera
    /\ UNCHANGED <<markersData, selectedBuilding, filterVars, claimsVars>>
    /\ UNCHANGED dialogVars
    /\ UNCHANGED <<markerVars, pageVars>>

(***************************************************************************)
(* Continuation of checkClaim after the await                              *)
(***************************************************************************)
\* the lookups still awaiting their response once lookup f has answered
Without(pending, f) == pending (-) SetToBag({f})

\* the lookup answers with rows: setClaims(data ?? []); setClaimsLoading(false)
ClaimsResolved(f) ==
    /\ BagIn(f, inflight)
    /\ claims' = Some(ClaimsQuery(f.key))
    /\ claimsLoading' = FALSE
    /\ inflight' = Without(inflight, f)
    /\ lastCamera' = "none"
    /\ UNCHANGED camera
    /\ UNCHANGED <<markersData, dom, selectedBuilding, filterVars, claimsError,
                   showClaimsPanel, timers>>
    /\ UNCHANGED dialogVars
    /\ UNCHANGED <<markerVars, pageVars>>

\* the lookup answers with an error: setClaimsError(error.message);
\* setClaimsLoading(false)
ClaimsFailed(f, message) ==
    /\ BagIn(f, inflight)
    /\ claimsError' = Some(message)
    /\ claimsLoading' = FALSE
    /\ inflight' = Without(inflight, f)
    /\ lastCamera' = "none"
    /\ UNCHANGED camera
    /\ UNCHANGED <<markersData, dom, selectedBuilding, filterVars, claims,
                   showClaimsPanel, timers>>
    /\ UNCHANGED dialogVars
    /\ UNCHANGED <<markerVars, pageVars>>

\* the await throws: setClaimsError('Unexpected error'); setClaimsLoading(false)
ClaimsThrewKeepsLoading(f) ==
    /\ BagIn(f, inflight)
    /\ claimsError' = Some("Unexpected error")
    /\ inflight' = Without(inflight, f)
    /\ lastCamera' = "none"
    /\ UNCHANGED camera
    /\ UNCHANGED <<markersData, dom, selectedBuilding, filterVars, claims, claimsLoading,
                   showClaimsPanel, timers>>
    /\ UNCHANGED dialogVars
    /\ UNCHANGED <<markerVars, pageVars>>

ClaimsThrew(f) ==
    /\ BagIn(f, inflight)
    /\ claimsError' = Some("Unexpected error")
    /\ claimsLoading' = FALSE
    /\ inflight' = Without(inflight, f)
    /\ lastCamera' = "none"
    /\ UNCHANGED camera
    /\ UNCHANGED <<markersData, dom, selectedBuilding, filterVars, claims,
                   showClaimsPanel, timers>>
    /\ UNCHANGED dialogVars
    /\ UNCHANGED <<markerVars, pageVars>>

(***************************************************************************)
(* The threshold sliders                                                   *)
(***************************************************************************)
\* the value a Slider with the given min and max hands to onValueChange when
\* its thumb is dragged to a position: the position moved into min..max
SliderValue(position, min, max) ==
    IF position < min THEN min ELSE IF position > max THEN max ELSE position

\* positions the thumbs are dragged to, in steps of 1: before the start of
\* the track, on it, and past its end
WaterSliderPositions == {WaterMin - 1, 3, WaterMax + 1}
WindSliderPositions == {WindMin - 1, 30, WindMax + 1}

\* <Slider value={waterThreshold} onValueChange={setWaterThreshold} min={1} max={6}>
SlideWaterWindTrack(position) ==
    SetWaterThreshold(SliderValue(position, WindMin, WindMax))

SlideWater(position) ==
    SetWaterThreshold(SliderValue(position, WaterMin, WaterMax))

\* <Slider value={windThreshold} onValueChange={setWindThreshold} min={25} max={38}>
SlideWind(position) ==
    SetWindThreshold(SliderValue(position, WindMin, WindMax))

(***************************************************************************)
(* Send-info button                                                        *)
(***************************************************************************)
\* markersData.filter(coord => Number(riskValue) >= threshold[0]).length
VisibleMarkersCountByFlag(mode, water, wind, coordinates) ==
    Cardinality({i \in 1..Len(coordinates) :
        ~IsFiltered(RiskValue(mode, coordinates[i]), ActiveThreshold(mode, water, wind))})

VisibleMarkersCount(mode, water, wind, coordinates) ==
    Cardinality({i \in 1..Len(coordinates) :
        JSGreaterEq(ToNumber(RiskValue(mode, coordinates[i])),
                    Finite(ActiveThreshold(mode, water, wind)))})

\* what the button offers to send to: the address of the selected building,
\* or else the count of visible markers, disabled unless the count exceeds 0
SendInfoButton ==
    IF selectedBuilding # None
    THEN [target |-> "address", address |-> selectedBuilding[1].address, count |-> 0,
          disabled |-> FALSE]
    ELSE LET visibleMarkersCount ==
                 VisibleMarkersCount(riskMode, waterThreshold, windThreshold, markersData)
             hasEnoughMarkers == visibleMarkersCount > 0
         IN  [target |-> "count", address |-> "", count |-> visibleMarkersCount,
              disabled |-> ~hasEnoughMarkers]

(***************************************************************************)
(* Claim details dialog and loadImages                                     *)
(***************************************************************************)
\* data.signedUrl of a successful createSignedUrl(path, 600)
SignedUrl(path) == [signed |-> path]

\* the {data, error} createSignedUrl(path, 600) may resolve to
SignAnswers(path) ==
    { [error |-> FALSE, data |-> Some([signedUrl |-> SignedUrl(path)])],
      [error |-> TRUE, data |-> None] }

\* the body of the signing loop for one answer: an error skips the path,
\* otherwise data?.signedUrl is pushed
PushSigned(signedUrls, answer) ==
    IF answer.error THEN signedUrls
    ELSE IF answer.data # None THEN Append(signedUrls, answer.data[1].signedUrl)
    ELSE signedUrls

\* loadImages up to its first await, run by the effect on [claimDialogOpen,
\* selectedClaim] with their new values: nothing unless the dialog is open on
\* a claim; the loading flag is raised and the images are emptied; with no
\* image path the finally block lowers the flag again at once
LoadImages(open, claim) ==
    IF ~open \/ claim = None
    THEN UNCHANGED <<imageUrls, imageLoading, signRuns, settled>>
    ELSE /\ imageUrls' = <<>>
         /\ IF Len(claim[1].image_paths) > 0
            THEN /\ Len(signRuns) < MaxRuns
                 /\ imageLoading' = TRUE
                 /\ signRuns' = Append(signRuns, [claim |-> claim[1].id,
                                                  paths |-> claim[1].image_paths,
                                                  at |-> 1, signedUrls |-> <<>>, failed |-> {}])
                 /\ settled' = None
            ELSE /\ imageLoading' = FALSE
                 /\ UNCHANGED signRuns
                 /\ settled' = Some([claim |-> claim[1].id, paths |-> <<>>, failed |-> {},
                                     rejected |-> FALSE])

\* a click on row k of the claims list: setSelectedClaim(c);
\* setClaimDialogOpen(true); the list is rendered when the panel is shown
\* without loading flag or error, and is inert while the modal dialog is open
OpenClaim(k) ==
    /\ ClaimsPanelShown
    /\ ~claimsLoading
    /\ claimsError = None
    /\ ~claimDialogOpen
    /\ k \in DOMAIN claims[1]
    /\ selectedClaim' = Some(claims[1][k])
    /\ claimDialogOpen' = TRUE
    /\ LoadImages(TRUE, Some(claims[1][k]))
    /\ lastCamera' = "none"
    /\ UNCHANGED camera
    /\ UNCHANGED <<markersData, dom, selectedBuilding, filterVars, claimsVars, timers,
                   markerVars, pageVars>>

\* onOpenChange(false): the dialog closes, the claim, the images and the
\* loading flag are reset; the effect runs again and returns at once
CloseDialog ==
    /\ claimDialogOpen
    /\ claimDialogOpen' = FALSE
    /\ selectedClaim' = None
    /\ imageUrls' = <<>>
    /\ imageLoading' = FALSE
    /\ settled' = None
    /\ UNCHANGED signRuns
    /\ lastCamera' = "none"
    /\ UNCHANGED camera
    /\ UNCHANGED <<markersData, dom, selectedBuilding, filterVars, claimsVars, timers,
                   markerVars, pageVars>>

\* the suspended calls once call k has finished
RemoveRun(runs, k) == [j \in 1..(Len(runs) - 1) |-> IF j < k THEN runs[j] ELSE runs[j + 1]]

\* createSignedUrl answers call k: the loop goes on to the next path, or,
\* after the last one, setImageUrls(signedUrls) and the finally block run
SignAnsweredBreaksOnError(k, answer) ==
    /\ k \in DOMAIN signRuns
    /\ answer \in SignAnswers(signRuns[k].paths[signRuns[k].at])
    /\ LET r == signRuns[k]
           signedUrls == PushSigned(r.signedUrls, answer)
           failed == IF answer.error THEN r.failed \cup {r.at} ELSE r.failed
       IN  IF r.at < Len(r.paths) /\ ~answer.error
           THEN /\ signRuns' = [signRuns EXCEPT ![k] =
                                   [r EXCEPT !.at = r.at + 1, !.signedUrls = signedUrls,
                                             !.failed = failed]]
                /\ UNCHANGED <<imageUrls, imageLoading, settled>>
           ELSE /\ imageUrls' = signedUrls
                /\ imageLoading' = FALSE
                /\ signRuns' = RemoveRun(signRuns, k)
                /\ settled' = Some([claim |-> r.claim, paths |-> r.paths, failed |-> failed,
                                    rejected |-> FALSE])
    /\ lastCamera' = "none"
    /\ UNCHANGED camera
    /\ UNCHANGED <<markersData, dom, selectedBuilding, filterVars, claimsVars, timers,
                   selectedClaim, claimDialogOpen>>
    /\ UNCHANGED <<markerVars, pageVars>>

SignAnswered(k, answer) ==
    /\ k \in DOMAIN signRuns
    /\ answer \in SignAnswers(signRuns[k].paths[signRuns[k].at])
    /\ LET r == signRuns[k]
           signedUrls == PushSigned(r.signedUrls, answer)
           failed == IF answer.error THEN r.failed \cup {r.at} ELSE r.failed
       IN  IF r.at < Len(r.paths)
           THEN /\ signRuns' = [signRuns EXCEPT ![k] =
                                   [r EXCEPT !.at = r.at + 1, !.signedUrls = signedUrls,
                                             !.failed = failed]]
                /\ UNCHANGED <<imageUrls, imageLoading, settled>>
           ELSE /\ imageUrls' = signedUrls
                /\ imageLoading' = FALSE
                /\ signRuns' = RemoveRun(signRuns, k)
                /\ settled' = Some([claim |-> r.claim, paths |-> r.paths, failed |-> failed,
                                    rejected |-> FALSE])
    /\ lastCamera' = "none"
    /\ UNCHANGED camera
    /\ UNCHANGED <<markersData, dom, selectedBuilding, filterVars, claimsVars, timers,
                   selectedClaim, claimDialogOpen>>
    /\ UNCHANGED <<markerVars, pageVars>>

\* the await of call k throws: the try has no catch, the finally block runs
\* setImageLoading(false) and the promise of loadImages() is rejected
SignThrew(k) ==
    /\ k \in DOMAIN signRuns
    /\ imageLoading' = FALSE
    /\ signRuns' = RemoveRun(signRuns, k)
    /\ settled' = Some([claim |-> signRuns[k].claim, paths |-> signRuns[k].paths,
                        failed |-> signRuns[k].failed, rejected |-> TRUE])
    /\ lastCamera' = "none"
    /\ UNCHANGED camera
    /\ UNCHANGED <<markersData, dom, selectedBuilding, filterVars, claimsVars, timers,
                   selectedClaim, claimDialogOpen, imageUrls>>
    /\ UNCHANGED <<markerVars, pageVars>>

\* the image area of the dialog: skeletons while loading, then the images,
\* or a text when the claim has no image path
DialogImageArea ==
    [skeleton |-> imageLoading,
     images |-> IF ~imageLoading /\ Len(imageUrls) > 0 THEN imageUrls ELSE <<>>,
     noImagesText |-> /\ ~imageLoading
                      /\ selectedClaim # None
                      /\ Len(selectedClaim[1].image_paths) = 0]

(***************************************************************************)
(* Analytics page: the debounced location search                           *)
(***************************************************************************)
\* an input text is the list of its characters
SearchTexts == {<<>>, <<" ">>, <<"a">>, <<"a", "b">>, <<"a", " ">>}

RECURSIVE TrimStart(_)
TrimStart(text) ==
    IF text # <<>> /\ Head(text) = " " THEN TrimStart(Tail(text)) ELSE text

RECURSIVE TrimEnd(_)
TrimEnd(text) ==
    IF text # <<>> /\ text[Len(text)] = " "
    THEN TrimEnd(SubSeq(text, 1, Len(text) - 1))
    ELSE text

\* String.prototype.trim()
Trim(text) == TrimEnd(TrimStart(text))

\* !text.trim(): the empty string is falsy
Blank(text) == Trim(text) = <<>>

\* the state of the map view, which the handlers of the search leave alone
mapViewVars == <<markersData, dom, selectedBuilding, filterVars, claimsVars, timers,
                 lastCamera, camera, dialogVars, markerVars>>

\* data.results of the search service for a text: no row or one row
SearchResults(searchText) == {<<>>, <<[label |-> searchText]>>}

\* the timer ids in use: window.setTimeout returns an id no other timer has
TimerIds == {t.id : t \in windowTimers} \cup {searchTimeoutRef}

\* searchLocations(searchText) up to its await
SearchLocations(searchText) ==
    IF Blank(searchText)
    THEN /\ locationResults' = <<>>
         /\ showResults' = FALSE
         /\ isLoading' = FALSE
         /\ UNCHANGED searches
    ELSE /\ Len(searches) < MaxSearches
         /\ isLoading' = TRUE
         /\ searches' = Append(searches, searchText)
         /\ UNCHANGED <<locationResults, showResults>>

\* debouncedSearch(searchText): clearTimeout of the timer the ref names, then
\* a new timer of 300 ms whose id the ref takes
DebouncedSearch(searchText) ==
    LET id == CHOOSE n \in 1..(Cardinality(TimerIds) + 1) : n \notin TimerIds
    IN  /\ windowTimers' = {t \in windowTimers : t.id # searchTimeoutRef}
                              \cup {[id |-> id, searchText |-> searchText, due |-> DebounceMs]}
        /\ searchTimeoutRef' = id

\* handleInputChange: onChange of the search input with a new text
HandleInputChange(value) ==
    /\ value # searchValue
    /\ searchValue' = value
    /\ sinceChange' = 0
    /\ IF Blank(value)
       THEN /\ locationResults' = <<>>
            /\ showResults' = FALSE
            /\ isLoading' = FALSE
            /\ UNCHANGED <<searchTimeoutRef, windowTimers>>
       ELSE /\ DebouncedSearch(value)
            /\ UNCHANGED <<locationResults, showResults, isLoading>>
    /\ UNCHANGED searches
    /\ UNCHANGED mapViewVars

\* TickMs milliseconds pass; a timer that is due runs before more time passes
Tick ==
    /\ \A t \in windowTimers : t.due > 0
    /\ windowTimers # {} \/ sinceChange < DebounceMs
    /\ windowTimers' = {[t EXCEPT !.due = IF t.due > TickMs THEN t.due - TickMs ELSE 0] :
                            t \in windowTimers}
    /\ sinceChange' = IF sinceChange + TickMs < DebounceMs THEN sinceChange + TickMs
                       ELSE DebounceMs
    /\ UNCHANGED <<searchValue, isLoading, locationResults, showResults, searchTimeoutRef,
                   searches>>
    /\ UNCHANGED mapViewVars

\* the callback of a due debounce timer: if (searchText.trim())
\* searchLocations(searchText); the ref keeps the id
TimerFires(t) ==
    /\ t \in windowTimers
    /\ t.due = 0
    /\ windowTimers' = windowTimers \ {t}
    /\ IF ~Blank(t.searchText)
       THEN SearchLocations(t.searchText)
       ELSE UNCHANGED <<locationResults, showResults, isLoading, searches>>
    /\ UNCHANGED <<searchValue, searchTimeoutRef, sinceChange>>
    /\ UNCHANGED mapViewVars

\* the fetch of call k answers with data.results = results
SearchAnswered(k, results) ==
    /\ k \in DOMAIN searches
    /\ IF Len(results) > 0
       THEN /\ locationResults' = IF locationResults # results THEN results ELSE locationResults
            /\ showResults' = TRUE
       ELSE /\ locationResults' = <<>>
            /\ showResults' = FALSE
    /\ isLoading' = FALSE
    /\ searches' = RemoveRun(searches, k)
    /\ UNCHANGED <<searchValue, searchTimeoutRef, windowTimers, sinceChange>>
    /\ UNCHANGED mapViewVars

\* the fetch of call k, or response.json(), throws
SearchFailed(k) ==
    /\ k \in DOMAIN searches
    /\ locationResults' = <<>>
    /\ showResults' = FALSE
    /\ isLoading' = FALSE
    /\ searches' = RemoveRun(searches, k)
    /\ UNCHANGED <<searchValue, searchTimeoutRef, windowTimers, sinceChange>>
    /\ UNCHANGED mapViewVars

(***************************************************************************)
(* Specification                                                           *)
(***************************************************************************)
\* a step of the component: one handler or continuation runs; the observers
\* are not kept
Next ==
    \/ UNCHANGED observers /\ \E coordinates \in LoadInputs : AddMarkers(coordinates)
    \/ UNCHANGED observers /\ ClearMarkers
    \/ UNCHANGED observers /\ \E i \in DOMAIN dom : MarkerClick(i)
    \/ UNCHANGED observers /\ CloseRiskPanel
    \/ UNCHANGED observers /\ CloseClaimsPanel
    \/ UNCHANGED observers /\ \E mode \in {"water", "wind"} : SetRiskMode(mode)
    \/ UNCHANGED observers /\ \E v \in WaterSliderInputs : SetWaterThreshold(v)
    \/ UNCHANGED observers /\ \E v \in WindSliderInputs : SetWindThreshold(v)
    \/ UNCHANGED observers /\ RestoreSelection
    \/ UNCHANGED observers /\ \E f \in BagToSet(inflight) : ClaimsResolved(f)
    \/ UNCHANGED observers /\ \E f \in BagToSet(inflight), message \in BackendErrors : ClaimsFailed(f, message)
    \/ UNCHANGED observers /\ \E f \in BagToSet(inflight) : ClaimsThrew(f)

Spec == Init /\ [][Next]_vars

(***************************************************************************)
(* Selections and their lookups, every lookup answered                     *)
(***************************************************************************)
\* an answer to a pending lookup: rows, an error, or an exception
Answer ==
    \/ \E f \in BagToSet(inflight) : ClaimsResolved(f)
    \/ \E f \in BagToSet(inflight), message \in BackendErrors : ClaimsFailed(f, message)
    \/ \E f \in BagToSet(inflight) : ClaimsThrew(f)

\* the record sets loaded: buildings with an identifier and one without
LookupInputs == {<<BuildingB, BuildingC>>, <<BuildingA, BuildingC>>}

\* a building with an identifier and one without are loaded, selected,
\* unselected and cleared while the lookups are answered
NextLookups ==
    \/ UNCHANGED observers /\ \E coordinates \in LookupInputs : AddMarkers(coordinates)
    \/ UNCHANGED observers /\ ClearMarkers
    \/ UNCHANGED observers /\ \E i \in DOMAIN dom : MarkerClick(i)
    \/ UNCHANGED observers /\ CloseRiskPanel
    \/ UNCHANGED observers /\ CloseClaimsPanel
    \/ UNCHANGED observers /\ Answer

\* the backend answers every lookup: a pending lookup is not left
\* unanswered for ever
SpecLookups == Init /\ [][NextLookups]_vars /\ WF_vars(UNCHANGED observers /\ Answer)

(***************************************************************************)
(* The markers, the selection and the camera                               *)
(***************************************************************************)
\* the handlers that draw markers, select and move the camera, with lookups
\* that answer with rows: no handler of markers, selection or camera reads
\* what a failed lookup or the close button of the Claims Panel writes
NextMarkers ==
    \/ UNCHANGED observers /\ \E coordinates \in LoadInputs : AddMarkers(coordinates)
    \/ UNCHANGED observers /\ ClearMarkers
    \/ UNCHANGED observers /\ \E i \in DOMAIN dom : MarkerClick(i)
    \/ UNCHANGED observers /\ CloseRiskPanel
    \/ UNCHANGED observers /\ \E mode \in {"water", "wind"} : SetRiskMode(mode)
    \/ UNCHANGED observers /\ \E v \in WaterSliderInputs : SetWaterThreshold(v)
    \/ UNCHANGED observers /\ \E v \in WindSliderInputs : SetWindThreshold(v)
    \/ UNCHANGED observers /\ RestoreSelection
    \/ UNCHANGED observers /\ \E f \in BagToSet(inflight) : ClaimsResolved(f)

SpecMarkers == Init /\ [][NextMarkers]_vars

(***************************************************************************)
(* The component with the observers recording what was drawn               *)
(***************************************************************************)
\* the ids, colors and below-threshold flags of the elements, in order
Visuals(elements) ==
    [k \in DOMAIN elements |->
        [id |-> elements[k].id, fill |-> elements[k].fill, isFiltered |-> elements[k].isFiltered]]

\* addMarkers, observed: the load and what it drew are recorded, the recorded
\* recompute is dropped
ObserveLoad(coordinates) ==
    /\ AddMarkers(coordinates)
    /\ loadSeen' = Some([records |-> coordinates, visuals |-> Visuals(dom'), cleared |-> FALSE])
    /\ recomputeSeen' = None

\* clearMarkers, observed: the recorded load is marked as cleared
ObserveClear ==
    /\ ClearMarkers
    /\ loadSeen' = IF loadSeen = None THEN None ELSE Some([loadSeen[1] EXCEPT !.cleared = TRUE])
    /\ recomputeSeen' = None

\* what may be recorded after a filter change: nothing new when no record is
\* loaded; a repeat of the recorded filter state is counted; otherwise either
\* the recorded recompute is kept or this one replaces it
RecomputeRecords ==
    LET this == [filter |-> filterVars', visuals |-> Visuals(dom'), repeats |-> 0]
    IN  IF Len(markersData) = 0 THEN {recomputeSeen}
        ELSE IF recomputeSeen = None THEN {Some(this)}
        ELSE IF recomputeSeen[1].filter = filterVars'
             THEN {Some([recomputeSeen[1] EXCEPT !.repeats = 1])}
        ELSE {recomputeSeen, Some(this)}

\* a filter change, observed: the filter state of the recorded load is gone
ObserveFilter ==
    /\ loadSeen' = None
    /\ recomputeSeen' \in RecomputeRecords

\* loads, clears, filter changes, clicks and restore timers; the claims
\* lookups stay unanswered
NextObserved ==
    \/ \E coordinates \in LoadInputs : ObserveLoad(coordinates)
    \/ ObserveClear
    \/ \E mode \in {"water", "wind"} : SetRiskMode(mode) /\ ObserveFilter
    \/ \E v \in WaterSliderInputs : SetWaterThreshold(v) /\ ObserveFilter
    \/ \E v \in WindSliderInputs : SetWindThreshold(v) /\ ObserveFilter
    \/ UNCHANGED observers /\ \E i \in DOMAIN dom : MarkerClick(i)
    \/ UNCHANGED observers /\ RestoreSelection

SpecObserved == Init /\ [][NextObserved]_vars

(***************************************************************************)
(* The color mapping on scores inside and outside the risk domains         *)
(***************************************************************************)
\* <<water score, wind score>> of the records loaded: below, at the ends of,
\* inside and above each domain, and records without a wind score
ScoreInputs ==
    { <<Num(0), Num(24)>>, <<Num(1), Num(25)>>, <<Num(3), Num(30)>>,
      <<Num(6), Num(38)>>, <<Num(7), Num(39)>>, <<Num(3), JSNull>>, <<Num(6), JSNull>> }

\* the lists of two such records
ColorInputs ==
    { << Building("A", JSUndef, p[1], p[2]), Building("B", JSUndef, q[1], q[2]) >> :
        p \in ScoreInputs, q \in ScoreInputs }

\* loads of these lists and filter changes
NextColor ==
    \/ UNCHANGED observers /\ \E coordinates \in ColorInputs : AddMarkers(coordinates)
    \/ UNCHANGED observers /\ \E mode \in {"water", "wind"} : SetRiskMode(mode)
    \/ UNCHANGED observers /\ \E v \in WaterSliderInputs : SetWaterThreshold(v)
    \/ UNCHANGED observers /\ \E v \in WindSliderInputs : SetWindThreshold(v)

SpecColor == Init /\ [][NextColor]_vars

(***************************************************************************)
(* The claim details dialog on the claims of a selected building           *)
(***************************************************************************)
\* a building with two claims is loaded and selected and its lookup answers;
\* the claims are opened and closed while createSignedUrl answers, fails or
\* throws
NextDialog ==
    \/ UNCHANGED observers /\ AddMarkers(<<BuildingA>>)
    \/ UNCHANGED observers /\ \E i \in DOMAIN dom : MarkerClick(i)
    \/ UNCHANGED observers /\ \E f \in BagToSet(inflight) : ClaimsResolved(f)
    \/ UNCHANGED observers /\ \E k \in DOMAIN ClaimsTable : OpenClaim(k)
    \/ UNCHANGED observers /\ CloseDialog
    \/ UNCHANGED observers /\ \E k \in DOMAIN signRuns :
            \E answer \in SignAnswers(signRuns[k].paths[signRuns[k].at]) : SignAnswered(k, answer)
    \/ UNCHANGED observers /\ \E k \in DOMAIN signRuns : SignThrew(k)

SpecDialog == Init /\ [][NextDialog]_vars

(***************************************************************************)
(* The filter controls operated through the sliders                        *)
(***************************************************************************)
\* loads, mode changes and drags of the two thumbs
NextSlider ==
    \/ UNCHANGED observers /\ \E coordinates \in LoadInputs : AddMarkers(coordinates)
    \/ UNCHANGED observers /\ \E mode \in {"water", "wind"} : SetRiskMode(mode)
    \/ UNCHANGED observers /\ \E position \in WaterSliderPositions : SlideWater(position)
    \/ UNCHANGED observers /\ \E position \in WindSliderPositions : SlideWind(position)

SpecSlider == Init /\ [][NextSlider]_vars

(***************************************************************************)
(* The filter controls with clicks on the button of the active mode        *)
(***************************************************************************)
\* loads, clicks on either mode button and slider changes
NextSetters ==
    \/ UNCHANGED observers /\ \E coordinates \in LoadInputs : AddMarkers(coordinates)
    \/ UNCHANGED observers /\ \E mode \in {"water", "wind"} : ClickRiskMode(mode)
    \/ UNCHANGED observers /\ \E v \in WaterSliderInputs : SetWaterThreshold(v)
    \/ UNCHANGED observers /\ \E v \in WindSliderInputs : SetWindThreshold(v)

SpecSetters == Init /\ [][NextSetters]_vars

(***************************************************************************)
(* Loads of records that share an address                                  *)
(***************************************************************************)
\* a second building registered under the address of BuildingA, with its own
\* identifier and scores; geocoding the address gives the same point
BuildingA2 == Building("A", Num(3), Num(1), Num(38))

\* the record lists handed to addMarkers
DuplicateInputs == { <<BuildingA, BuildingA2>>, <<BuildingA2, BuildingB>> }

\* loads of these lists, clicks, filter changes and restore timers; the
\* claims lookups stay unanswered
NextDuplicates ==
    \/ UNCHANGED observers /\ \E coordinates \in DuplicateInputs : AddMarkers(coordinates)
    \/ UNCHANGED observers /\ \E i \in DOMAIN dom : MarkerClick(i)
    \/ UNCHANGED observers /\ \E mode \in {"water", "wind"} : SetRiskMode(mode)
    \/ UNCHANGED observers /\ \E v \in WaterSliderInputs : SetWaterThreshold(v)
    \/ UNCHANGED observers /\ \E v \in WindSliderInputs : SetWindThreshold(v)
    \/ UNCHANGED observers /\ RestoreSelection

SpecDuplicates == Init /\ [][NextDuplicates]_vars

(***************************************************************************)
(* Calls through the imperative handle between renders                     *)
(***************************************************************************)
\* the record lists handed to addMarkers
HandleInputs == { <<BuildingA, BuildingB>>, <<BuildingB>>, <<BuildingD>> }

\* the page calls addMarkers and clearMarkers through the ref; the render a
\* call schedules comes before or after the next call
NextHandle ==
    \/ UNCHANGED observers /\ \E coordinates \in HandleInputs : AddMarkersBeforeRender(coordinates)
    \/ UNCHANGED observers /\ ClearMarkersBeforeRender
    \/ UNCHANGED observers /\ Render

SpecHandle == Init /\ [][NextHandle]_vars

(***************************************************************************)
(* Typing into the search input                                            *)
(***************************************************************************)
\* input changes, the clock, the debounce timers and the answers of the
\* search service
NextSearch ==
    \/ UNCHANGED observers /\ \E value \in SearchTexts : HandleInputChange(value)
    \/ UNCHANGED observers /\ Tick
    \/ UNCHANGED observers /\ \E t \in windowTimers : TimerFires(t)
    \/ UNCHANGED observers /\ \E k \in DOMAIN searches : SearchFailed(k)
    \/ UNCHANGED observers /\ \E k \in DOMAIN searches :
            \E results \in SearchResults(searches[k]) : SearchAnswered(k, results)

SpecSearch == Init /\ [][NextSearch]_vars

(***************************************************************************)
(* Properties of the claims loader                                         *)
(***************************************************************************)
\* the key of the lookup checkClaim issues for the selected building
SelectedKey == JSString(EgidOf(selectedBuilding))

\* C1 (supersession): once no claims lookup is pending, the claims held for a
\* selected building with an identifier are the rows of that building's own
\* lookup, never those of a lookup issued for an earlier selection.
C1_SupersededResultDiscarded ==
    ( /\ BagCardinality(inflight) = 0
      /\ selectedBuilding # None
      /\ ~Falsy(EgidOf(selectedBuilding))
      /\ claims # None )
    => claims[1] = ClaimsQuery(SelectedKey)

\* C2: whenever the claims panel shows a non-empty list, every row of the list
\* was fetched for the identifier of the currently selected building.
C2_PanelShowsCurrentSelection ==
    ClaimsPanelShown =>
        /\ ~Falsy(EgidOf(selectedBuilding))
        /\ \A k \in DOMAIN claims[1] : claims[1][k].gwr_egid = SelectedKey

\* C3: while no building is selected the claims state is cleared, also when a
\* lookup issued for the previous selection answers after the deselection.
C3_ClearedWhileUnselected ==
    selectedBuilding = None => claims = None

\* a lookup issued for a building other than the selected one fails
FailsSuperseded(f) ==
    /\ selectedBuilding # None
    /\ f.issuedFor # selectedBuilding[1].markerId
    /\ \/ ClaimsThrew(f)
       \/ \E message \in BackendErrors : ClaimsFailed(f, message)

\* C4: the failure of a lookup issued for building A, arriving while another
\* building B is selected, changes neither claims, claimsError nor
\* claimsLoading.
C4_FailureScopedToItsSelection ==
    [][ \A f \in BagToSet(inflight) :
            FailsSuperseded(f) => UNCHANGED <<claims, claimsError, claimsLoading>> ]_vars

(***************************************************************************)
(* Properties of the selection                                             *)
(***************************************************************************)
\* the positions of the elements that carry data-selected = 'true'
SelectedElements(elements) == {k \in DOMAIN elements : elements[k].selected}

\* C5 (selection exclusivity): every marker click ends with at most one
\* element carrying the selected emphasis, and that element is the clicked one,
\* whose id is the selected building's markerId.
C5_ClickSelectsExclusively ==
    [][ \A i \in DOMAIN dom :
            MarkerClick(i) =>
                /\ Cardinality(SelectedElements(dom')) <= 1
                /\ SelectedElements(dom') \subseteq {i}
                /\ \A k \in SelectedElements(dom') :
                      /\ selectedBuilding' # None
                      /\ dom'[k].id = selectedBuilding'[1].markerId ]_vars

\* two clicks on different markers have happened (both lookups are pending) and
\* exactly one element, the one of the selected building, is emphasised
C5_Witness ==
    /\ BagCardinality(inflight) = 2
    /\ Cardinality({f.issuedFor : f \in BagToSet(inflight)}) = 2
    /\ selectedBuilding # None
    /\ Cardinality(SelectedElements(dom)) = 1
    /\ \A k \in SelectedElements(dom) : dom[k].id = selectedBuilding[1].markerId

\* C6 (toggle-off): a click on the marker whose id is the selected building's
\* markerId deselects and clears the claims, in every state.
C6_ReclickDeselects ==
    [][ \A i \in DOMAIN dom :
            ( /\ selectedBuilding # None
              /\ selectedBuilding[1].markerId = dom[i].id
              /\ MarkerClick(i) )
            => (selectedBuilding' = None /\ claims' = None) ]_vars

\* the selected building is one of the loaded records
SelectionInStore ==
    selectedBuilding # None =>
        \E k \in DOMAIN markersData : Selection(markersData[k]) = selectedBuilding[1]

\* C7: addMarkers and clearMarkers leave no building selected, and the selected
\* building is always null or one of the loaded records.
C7_LoadAndClearUnselect ==
    /\ []SelectionInStore
    /\ [][ ((\E coordinates \in LoadInputs : AddMarkers(coordinates)) \/ ClearMarkers)
            => selectedBuilding' = None ]_vars

(***************************************************************************)
(* Properties of the marker colors                                         *)
(***************************************************************************)
\* element k of elements shows a record whose score in mode is the number s
\* with s < threshold
ScoreBelow(elements, k, mode, threshold) ==
    LET v == RiskValue(mode, elements[k].coord)
    IN  v.t = "number" /\ v.n < threshold

ScoreAtLeast(elements, k, mode, threshold) ==
    LET v == RiskValue(mode, elements[k].coord)
    IN  v.t = "number" /\ v.n >= threshold

\* C8: right after addMarkers every record whose active-mode score is below
\* the active threshold is drawn gray.
C8_LoadAppliesThreshold ==
    [][ (\E coordinates \in LoadInputs : AddMarkers(coordinates)) =>
            \A k \in DOMAIN dom' :
                ScoreBelow(dom', k, riskMode', ActiveThreshold(riskMode', waterThreshold', windThreshold'))
                => dom'[k].fill = Gray ]_vars

\* a step in which the recompute effect re-creates the markers
RecomputeStep == filterVars' # filterVars /\ Len(markersData) > 0

\* C9: after a recompute there is one marker per record; a numeric score below
\* the active threshold gives a below-threshold marker in the fixed gray, a
\* numeric score at or above it a marker that is neither; a water score of 6
\* gives hue 0.
C9_RecomputeGraysBelowThreshold ==
    [][ RecomputeStep =>
            LET t == ActiveThreshold(riskMode', waterThreshold', windThreshold')
            IN  /\ Len(dom') = Len(markersData')
                /\ \A k \in DOMAIN dom' :
                      /\ dom'[k].coord = markersData'[k]
                      /\ ScoreBelow(dom', k, riskMode', t) =>
                            (dom'[k].isFiltered /\ dom'[k].fill = [hue |-> <<0, 1>>, sat |-> 0, light |-> 60])
                      /\ ScoreAtLeast(dom', k, riskMode', t) =>
                            (~dom'[k].isFiltered /\ dom'[k].fill.sat = 80 /\ dom'[k].fill.light = 50)
                      /\ (riskMode' = "water" /\ ScoreAtLeast(dom', k, "water", WaterMax)) =>
                            dom'[k].fill.hue[1] = 0 ]_vars

\* scenario 1: water mode, threshold 3, the record with water 6 has hue 0 and
\* the record with water 1 is gray and below threshold
C9_Witness ==
    /\ riskMode = "water"
    /\ waterThreshold = 3
    /\ \E j, k \in DOMAIN dom :
          /\ dom[j].coord.riskData.HOCHWASSER_FLIESSGEWAESSER = Num(6)
          /\ dom[j].fill.hue[1] = 0 /\ dom[j].fill.sat = 80 /\ ~dom[j].isFiltered
          /\ dom[k].coord.riskData.HOCHWASSER_FLIESSGEWAESSER = Num(1)
          /\ dom[k].fill = Gray /\ dom[k].isFiltered

\* C10: after a recompute a record whose active-mode score is null is below
\* threshold and gray, whatever the threshold.
C10_NullScoreGray ==
    [][ RecomputeStep =>
            \A k \in DOMAIN dom' :
                RiskValue(riskMode', dom'[k].coord).t = "null"
                => (dom'[k].isFiltered /\ dom'[k].fill = Gray) ]_vars

\* a recompute has drawn a record with a null wind score gray at the lowest
\* wind threshold
C10_Witness ==
    /\ riskMode = "wind"
    /\ windThreshold = WindMin
    /\ \E k \in DOMAIN dom :
          /\ dom[k].coord.riskData.STURM = JSNull
          /\ dom[k].isFiltered
          /\ dom[k].fill = Gray

\* C11: after a recompute a record whose active-mode score is missing or not
\* a number (the field is undefined, Number(score) is NaN) is below threshold
\* and gray, never colored.
C11_MissingScoreGray ==
    [][ RecomputeStep =>
            \A k \in DOMAIN dom' :
                ToNumber(RiskValue(riskMode', dom'[k].coord)).nan
                => (dom'[k].isFiltered /\ dom'[k].fill = Gray) ]_vars

\* the score element k shows in the mode
NumericScore(elements, k, mode) ==
    IF mode = "water"
    THEN elements[k].coord.riskData.HOCHWASSER_FLIESSGEWAESSER
    ELSE elements[k].coord.riskData.STURM

\* a colored (not below-threshold) element showing a numeric score
Colored(elements, k, mode) ==
    ~elements[k].isFiltered /\ NumericScore(elements, k, mode).t = "number"

\* the score moved to the nearest end of the domain [lo, hi] when outside it
Clamped(score, lo, hi) == IF score < lo THEN lo ELSE IF score > hi THEN hi ELSE score

\* C12: a colored marker with a numeric score has hue 120 * (1 - t) with
\* t = (clamp(score, minVal, maxVal) - minVal) / (maxVal - minVal) over (1, 6)
\* for water and (25, 38) for wind: 120 at minVal and below, 0 at maxVal and
\* above, always within [0, 120], and never larger for a larger score.
C12_HueFormula ==
    LET lo == IF riskMode = "water" THEN 1 ELSE 25
        hi == IF riskMode = "water" THEN 6 ELSE 38
        Score(k) == NumericScore(dom, k, riskMode).n
        Hue(k) == dom[k].fill.hue
    IN  /\ \A k \in DOMAIN dom :
              Colored(dom, k, riskMode) =>
                  /\ Hue(k)[2] > 0
                  /\ Hue(k)[1] * (hi - lo) = 120 * (hi - Clamped(Score(k), lo, hi)) * Hue(k)[2]
                  /\ Hue(k)[1] >= 0
                  /\ Hue(k)[1] <= 120 * Hue(k)[2]
                  /\ Score(k) <= lo => Hue(k)[1] = 120 * Hue(k)[2]
                  /\ Score(k) >= hi => Hue(k)[1] = 0
        /\ \A j, k \in DOMAIN dom :
              (Colored(dom, j, riskMode) /\ Colored(dom, k, riskMode) /\ Score(j) <= Score(k))
              => Hue(j)[1] * Hue(k)[2] >= Hue(k)[1] * Hue(j)[2]

\* wind mode after a recompute: a score of 39, above the domain, has hue 0 and
\* a score of 30 has hue 120 * 8 / 13
C12_Witness ==
    /\ riskMode = "wind"
    /\ lastCamera = "jumpTo"
    /\ \E j, k \in DOMAIN dom :
          /\ dom[j].coord.riskData.STURM = Num(39)
          /\ ~dom[j].isFiltered /\ dom[j].fill.hue[1] = 0
          /\ dom[k].coord.riskData.STURM = Num(30)
          /\ ~dom[k].isFiltered /\ dom[k].fill.hue = <<960, 13>>

\* C13: the visuals depend only on the active mode.  Two markers that show the
\* same active-mode score are drawn alike whatever their scores in the other
\* mode (a record without a wind score is gray in wind mode whatever its water
\* score), and what a recompute draws is what it draws for any other value
\* of the inactive mode's threshold.
C13_ActiveModeOnly ==
    /\ [] \A j, k \in DOMAIN dom :
             NumericScore(dom, j, riskMode) = NumericScore(dom, k, riskMode)
             => (dom[j].fill = dom[k].fill /\ dom[j].isFiltered = dom[k].isFiltered)
    /\ [][ RecomputeStep =>
             /\ riskMode' = "water" =>
                    \A other \in WindSliderInputs :
                        Visuals(dom') = Visuals(RecomputeMarkers("water", waterThreshold', other, markersData'))
             /\ riskMode' = "wind" =>
                    \A other \in WaterSliderInputs :
                        Visuals(dom') = Visuals(RecomputeMarkers("wind", other, windThreshold', markersData')) ]_vars

\* wind mode after a recompute, with the water threshold moved to 3: two
\* records without a wind score and with water scores 3 and 6 are both gray
C13_Witness ==
    /\ riskMode = "wind"
    /\ waterThreshold = 3
    /\ lastCamera = "jumpTo"
    /\ \E j, k \in DOMAIN dom :
          /\ dom[j].coord.riskData.STURM = JSNull
          /\ dom[k].coord.riskData.STURM = JSNull
          /\ dom[j].coord.riskData.HOCHWASSER_FLIESSGEWAESSER = Num(3)
          /\ dom[k].coord.riskData.HOCHWASSER_FLIESSGEWAESSER = Num(6)
          /\ dom[j].fill = Gray /\ dom[j].isFiltered
          /\ dom[k].fill = Gray /\ dom[k].isFiltered

(***************************************************************************)
(* Frame properties of the filter controls and the recompute               *)
(***************************************************************************)
\* C14: the thresholds persist independently: a change of riskMode leaves both
\* thresholds as they are, a change of the water threshold leaves the wind
\* threshold and the mode, a change of the wind threshold leaves the water
\* threshold and the mode; so water -> wind -> water returns to the water
\* threshold set before.
C14_ThresholdsIndependent ==
    [][ /\ riskMode' # riskMode =>
              (waterThreshold' = waterThreshold /\ windThreshold' = windThreshold)
        /\ waterThreshold' # waterThreshold =>
              (windThreshold' = windThreshold /\ riskMode' = riskMode)
        /\ windThreshold' # windThreshold =>
              (waterThreshold' = waterThreshold /\ riskMode' = riskMode) ]_vars

\* both thresholds moved off their defaults: the water threshold set in water
\* mode is still 3 in wind mode, where the wind threshold was set to 30
C14_Witness ==
    /\ riskMode = "wind"
    /\ waterThreshold = 3
    /\ windThreshold = 30

\* C15: a recompute caused by a mode or threshold change calls neither flyTo
\* nor fitBounds; its camera call is jumpTo, and the camera pose after the
\* recompute is the pose before it.
C15_RecomputeKeepsPose ==
    [][ RecomputeStep => (lastCamera' = "jumpTo" /\ camera' = camera) ]_vars

\* a recompute has run on a single record: the camera is where the flyTo of
\* the load put it
C15_Witness ==
    /\ lastCamera = "jumpTo"
    /\ Len(dom) = 1
    /\ camera.method = "flyTo"
    /\ camera.points = << <<markersData[1].lng, markersData[1].lat>> >>

\* the recompute has run and its restore timer is the only pending one, set
\* for the building that is selected
RestoreDue ==
    /\ lastCamera = "jumpTo"
    /\ selectedBuilding # None
    /\ timers = <<selectedBuilding[1].markerId>>

\* C16: a recompute keeps the selected building, and when its restore timer
\* has fired the marker re-created for the selected address, and no other
\* marker, carries the selected emphasis.
C16_RecomputeKeepsSelection ==
    [][ /\ RecomputeStep => selectedBuilding' = selectedBuilding
        /\ (RestoreDue /\ RestoreSelection) =>
              /\ selectedBuilding' = selectedBuilding
              /\ SelectedElements(dom') =
                    {k \in DOMAIN dom' : dom'[k].coord.address = selectedBuilding'[1].address}
              /\ Cardinality(SelectedElements(dom')) <= 1
              /\ SelectionInStore' => Cardinality(SelectedElements(dom')) = 1 ]_vars

\* a recompute has re-created the markers while a loaded building is
\* selected; none carries the emphasis until the timer fires
C16_Witness ==
    /\ RestoreDue
    /\ SelectedElements(dom) = {}
    /\ \E k \in DOMAIN dom : k > 1 /\ dom[k].id = selectedBuilding[1].markerId

(***************************************************************************)
(* Properties of addMarkers and clearMarkers                               *)
(***************************************************************************)
\* what C17 asks of a step that is addMarkers(coordinates)
LoadCameraOutcome(coordinates) ==
    /\ Len(coordinates) = 0 =>
          (lastCamera' = "none" /\ camera' = camera /\ dom' = <<>>)
    /\ Len(coordinates) = 1 =>
          /\ lastCamera' = "flyTo"
          /\ camera'.method = "flyTo"
          /\ camera'.points = << <<coordinates[1].lng, coordinates[1].lat>> >>
    /\ Len(coordinates) > 1 =>
          /\ lastCamera' = "fitBounds"
          /\ camera'.method = "fitBounds"
          /\ camera'.zoom = 18
          /\ Len(camera'.points) = Len(coordinates)
          /\ \A k \in DOMAIN coordinates :
                camera'.points[k] = <<coordinates[k].lng, coordinates[k].lat>>

\* C17: addMarkers with no record draws no marker and makes no camera call;
\* with one record it calls flyTo to that record's position and not
\* fitBounds; with more than one it calls fitBounds over the positions of all
\* records with maxZoom 18, and not flyTo.
\* (a step that is addMarkers(coordinates) stores coordinates in markersData)
C17_LoadCamera ==
    [][ LoadCameraOutcome(markersData') \/ ~AddMarkers(markersData') ]_vars

\* a single record has been loaded: flyTo was called
C17_Witness ==
    /\ Len(markersData) = 1
    /\ Len(dom) = 1
    /\ lastCamera = "flyTo"
    /\ camera.zoom = 14

C19_RecomputeIdempotent ==
    [][ (RecomputeStep /\ recomputeSeen # None /\ recomputeSeen[1].filter = filterVars')
        => Visuals(dom') = recomputeSeen[1].visuals ]_vars

\* a recompute has repeated the recorded filter state; it drew one marker gray
\* and one colored, as recorded
C19_Witness ==
    /\ recomputeSeen # None
    /\ recomputeSeen[1].repeats = 1
    /\ recomputeSeen[1].filter = filterVars
    /\ lastCamera = "jumpTo"
    /\ Visuals(dom) = recomputeSeen[1].visuals
    /\ \E j, k \in DOMAIN dom : dom[j].isFiltered /\ ~dom[k].isFiltered

\* C20: addMarkers(records), clearMarkers(), addMarkers(records) under an
\* unchanged filter state draws the same ids, colors and flags as the first
\* addMarkers, and the selection is null after each addMarkers.
C20_LoadClearLoad ==
    [][ \A coordinates \in LoadInputs :
            AddMarkers(coordinates) =>
                /\ selectedBuilding' = None
                /\ (loadSeen # None /\ loadSeen[1].cleared /\ loadSeen[1].records = coordinates)
                   => Visuals(dom') = loadSeen[1].visuals ]_vars

(***************************************************************************)
(* Properties of the send-info button                                      *)
(***************************************************************************)
\* the loaded records whose score for the mode is a number at or above the
\* threshold
RecordsAtLeast(mode, threshold) ==
    {i \in 1..Len(markersData) :
        LET v == RiskValue(mode, markersData[i])
        IN  v.t = "number" /\ v.n >= threshold}

\* C21: with no building selected the button offers the number of loaded
\* records whose active-mode score is at or above the active threshold (null
\* and missing scores are not counted) and is disabled exactly when that
\* number is 0; with a building selected it offers that building's address.
C21_SendInfoTarget ==
    IF selectedBuilding = None
    THEN /\ SendInfoButton.target = "count"
         /\ SendInfoButton.count =
                Cardinality(RecordsAtLeast(riskMode,
                                ActiveThreshold(riskMode, waterThreshold, windThreshold)))
         /\ SendInfoButton.disabled <=> (SendInfoButton.count = 0)
    ELSE /\ SendInfoButton.target = "address"
         /\ SendInfoButton.address = selectedBuilding[1].address
         /\ ~SendInfoButton.disabled

\* nothing is selected, a record with a score at the threshold and a record
\* with a null score are loaded, and the button offers one building
C21_Witness ==
    /\ selectedBuilding = None
    /\ markersData = <<BuildingB, BuildingC>>
    /\ riskMode = "water"
    /\ waterThreshold = WaterMin
    /\ SendInfoButton.count = 1
    /\ ~SendInfoButton.disabled

(***************************************************************************)
(* Properties of the claim details dialog                                  *)
(***************************************************************************)
\* the signed URLs of the paths outside failed, in path order
SignedOthers(paths, failed) ==
    LET others == {i \in 1..Len(paths) : i \notin failed}
        Nth(j) == CHOOSE i \in others : Cardinality({m \in others : m <= i}) = j
    IN  [j \in 1..Cardinality(others) |-> SignedUrl(paths[Nth(j)])]

\* C22: when a loadImages call for the opened claim has finished without
\* throwing, the dialog shows the signed URL of every path whose
\* createSignedUrl did not return an error, in path order, and the image
\* loading flag is false.
C22_PartialSigningShown ==
    (/\ settled # None
     /\ ~settled[1].rejected
     /\ claimDialogOpen
     /\ selectedClaim[1].id = settled[1].claim)
    => /\ DialogImageArea.images = SignedOthers(settled[1].paths, settled[1].failed)
       /\ imageLoading = FALSE

\* the claim with three paths is open; signing the second path returned an
\* error and the dialog shows the first and the third image
C22_Witness ==
    /\ claimDialogOpen
    /\ selectedClaim # None
    /\ selectedClaim[1].image_paths = <<"p1", "p2", "p3">>
    /\ settled # None
    /\ settled[1].claim = selectedClaim[1].id
    /\ settled[1].failed = {2}
    /\ ~settled[1].rejected
    /\ ~imageLoading
    /\ DialogImageArea.images = <<SignedUrl("p1"), SignedUrl("p3")>>

\* the per-image entries the image area shows: its images; it renders no
\* other entry for a path
EntriesShown == Len(DialogImageArea.images)

\* C23: when a loadImages call for the opened claim has finished without
\* throwing, the dialog shows one entry per image path, an image or an
\* 'image unavailable' indication for the path whose signing failed.
C23_FailedImageMarkedUnavailable ==
    (/\ settled # None
     /\ ~settled[1].rejected
     /\ claimDialogOpen
     /\ selectedClaim[1].id = settled[1].claim)
    => EntriesShown = Len(settled[1].paths)

(***************************************************************************)
(* Properties of failed lookups                                            *)
(***************************************************************************)
\* C24: once the claims lookup of the selected building has failed and no
\* lookup is pending, the error is shown to the operator.
C24_FailedFetchVisible ==
    (/\ selectedBuilding # None
     /\ claimsError # None
     /\ ~claimsLoading
     /\ inflight = EmptyBag)
    => ClaimsErrorShown

\* C25: no failure of the claims lookup or of the image signing escapes its
\* loader: the promise of a finished loadImages call is never rejected, and
\* a checkClaim that has failed holds an error with the loading flag false.
C25_NoUnhandledRejection ==
    /\ settled # None => ~settled[1].rejected
    /\ (claimsError # None /\ inflight = EmptyBag) => ~claimsLoading

SetterCall ==
    \/ \E mode \in {"water", "wind"} : ClickRiskMode(mode)
    \/ \E v \in WaterSliderInputs : SetWaterThreshold(v)
    \/ \E v \in WindSliderInputs : SetWindThreshold(v)

\* C27: every setter call on a non-empty store, a call with the value the
\* state already holds included, runs the recompute once: the markers are
\* those of a recompute under the filter state and the camera was restored
\* with jumpTo.
C27_EverySetterCallRecomputes ==
    [][ (SetterCall /\ Len(markersData) > 0)
        => /\ lastCamera' = "jumpTo"
           /\ dom' = RecomputeMarkers(riskMode', waterThreshold', windThreshold', markersData) ]_vars

\* C28: after setter calls on a non-empty store, with no load or clear
\* since, the markers drawn have the colors and below-threshold flags of a
\* recompute against the filter state the calls ended in.
C28_FinalFilterDrawn ==
    recomputeSeen # None
    => Visuals(dom) =
          Visuals(RecomputeMarkers(riskMode, waterThreshold, windThreshold, markersData))

\* the water threshold was raised to 3 and the markers drawn are one gray
\* and one colored marker
C28_Witness ==
    /\ recomputeSeen # None
    /\ riskMode = "water"
    /\ waterThreshold = 3
    /\ markersData = <<BuildingA, BuildingB>>
    /\ dom[1].fill # Gray
    /\ dom[2].fill = Gray

\* C29: a mode or threshold change while no record is loaded changes the
\* filter state only: no marker element is created or removed, no camera call
\* is made, the pose, the selection and the pending restores stay as they are.
C29_EmptyStoreNoOp ==
    [][ (filterVars' # filterVars /\ Len(markersData) = 0)
        => /\ dom' = dom
           /\ markersData' = markersData
           /\ lastCamera' = "none"
           /\ camera' = camera
           /\ selectedBuilding' = selectedBuilding
           /\ timers' = timers ]_vars

\* mode and wind threshold were changed with no record loaded
C29_Witness ==
    /\ Len(markersData) = 0
    /\ dom = <<>>
    /\ riskMode = "wind"
    /\ windThreshold = 30
    /\ lastCamera = "none"

(***************************************************************************)
(* Properties of marker identity                                           *)
(***************************************************************************)
\* C30: no two marker elements carry the same data-id, so the element a
\* selection names by its id is the only one with that id.
C30_MarkerIdsUnique ==
    \A j, k \in DOMAIN dom : dom[j].id = dom[k].id => j = k

(***************************************************************************)
(* Properties of selection transitions and their lookups                   *)
(***************************************************************************)
\* a lookup is issued in this step
LookupStarted == \E f \in BagToSet(inflight') : CopiesIn(f, inflight') > CopiesIn(f, inflight)

C32_EmphasisFollowsSelection ==
    \A k \in DOMAIN dom :
        dom[k].selected => (selectedBuilding # None /\ dom[k].id = selectedBuilding[1].markerId)

\* C33: the images held for the dialog belong to the claim that is open: once
\* a loadImages call has finished, the image list is that call's result only
\* if the call was made for the open claim, and it is empty while the dialog
\* is closed.
C33_ImagesOfOpenClaim ==
    /\ ~claimDialogOpen => imageUrls = <<>>
    /\ (claimDialogOpen /\ imageUrls # <<>>) =>
          \A j \in DOMAIN imageUrls :
              \E k \in DOMAIN selectedClaim[1].image_paths :
                  imageUrls[j] = SignedUrl(selectedClaim[1].image_paths[k])

(***************************************************************************)
(* Properties of the claims loading flag                                   *)
(***************************************************************************)
\* the lookup issued for the current selection is pending
CurrentLookupPending ==
    /\ selectedBuilding # None
    /\ \E f \in BagToSet(inflight) :
          f.issuedFor = selectedBuilding[1].markerId /\ f.key = SelectedKey

\* C34: claimsLoading is true exactly while the lookup issued for the current
\* selection is pending.
C34_LoadingFlagAccurate ==
    claimsLoading <=> CurrentLookupPending

\* C35: when every lookup is answered, a raised loading flag is lowered
\* again, and the flag is false whenever no lookup is pending, a building
\* without an identifier being selected or not: once the selections stop and
\* the pending lookups are answered the flag is false and stays false.
C35_LoadingTerminates ==
    /\ claimsLoading ~> ~claimsLoading
    /\ inflight # EmptyBag ~> inflight = EmptyBag \/ ~claimsLoading
    /\ [](inflight = EmptyBag => ~claimsLoading)

\* the building without an identifier is selected; the lookup of the earlier
\* selection has failed since, and the flag is false
C35_Witness ==
    /\ selectedBuilding # None
    /\ Falsy(EgidOf(selectedBuilding))
    /\ claimsError # None
    /\ inflight = EmptyBag
    /\ ~claimsLoading

(***************************************************************************)
(* C36: the markers drawn and the number on the send-info button           *)
(***************************************************************************)
\* the markers of the map that are not drawn gray
NonGrayMarkers == {k \in DOMAIN dom : dom[k].fill # Gray}

\* C36: the number of markers drawn non-gray equals the number the send-info
\* button counts for the loaded records, the active mode and its threshold.
C36_DrawnMatchesCount ==
    Cardinality(NonGrayMarkers)
        = VisibleMarkersCount(riskMode, waterThreshold, windThreshold, markersData)

(***************************************************************************)
(* C37: markers of earlier loads                                           *)
(***************************************************************************)
\* C37: the markers on the map are exactly one per record of the most
\* recently loaded list, in its order, and none after a clear, also when
\* addMarkers or clearMarkers is called before the component has rendered
\* again after the previous call.
C37_NoOrphanedMarkers ==
    /\ Len(attached) = Len(markersData)
    /\ Len(dom) = Len(markersData)
    /\ \A k \in DOMAIN dom : dom[k].coord = markersData[k]

(***************************************************************************)
(* C38, C39: the debounced location search                                 *)
(***************************************************************************)
\* a step in which searchLocations starts a search
SearchInvoked == Len(searches') > Len(searches)

\* C38: at most one debounce timer is pending, and searchLocations is invoked
\* only 300 ms after the last change of the input, with the text of that
\* change.
C38_DebouncedSearch ==
    [][ /\ Cardinality(windowTimers') <= 1
        /\ SearchInvoked =>
               /\ sinceChange = DebounceMs
               /\ searches'[Len(searches')] = searchValue ]_vars

\* C39: while the text of the input is blank the result list is empty and
\* hidden and the loading flag is false.
C39_ClearingWins ==
    Blank(searchValue) => (locationResults = <<>> /\ ~showResults /\ ~isLoading)

====
